---- MODULE Spec2Model ----
(***************************************************************************)
(* State-machine model of the BizChat terminal UI (src/src/UserInterface.js) *)
(* as it is driven by ChatApp.startChatInterface: the bounded message log,  *)
(* the message-granular scroll state, the terminal height and the update    *)
(* notice that feed the visible-capacity estimate.                          *)
(* It also covers the payload routing of WebSocketClient.handleMessage, the *)
(* listeners ChatApp attaches to the client, the process signal handlers,   *)
(* and the line wrapping and row selection of renderMessages.               *)
(*                                                                         *)
(* Texts are sequences of one-character strings so that String.trim is     *)
(* computed, not assumed.  Times are integer clock ticks; a time label is   *)
(* what toLocaleTimeString keeps of a time (whole seconds).                 *)
(***************************************************************************)
EXTENDS Integers, Sequences, FiniteSets, TLC

VARIABLES
    messages,        \* this.messages: the log, oldest first
    scrollPosition,  \* this.scrollPosition: messages held back from the bottom
    viewMode,        \* this.viewMode: "normal" or "scrolling"
    updateStatus,    \* this.updateStatus: NULL or the notice text
    isActive,        \* this.isActive
    inputMode,       \* this.inputMode
    users,           \* this.users: the roster
    status,          \* this.status: the connection status line
    grabInput,       \* the terminal delivers key events (term.grabInput)
    sigintListeners, \* the process's 'SIGINT' listeners, in registration order
    lastSeenTimestamp, \* WebSocketClient.lastSeenTimestamp
    client,          \* WebSocketClient: connected, reconnectAttempts, its timers and sockets
    height,          \* term.height
    width,           \* term.width
    clock,           \* Date.now(), in ticks
    exited,          \* process.exit was called
    history,         \* ghost: every record ever put in the log, replacements applied
    anchor,          \* ghost: scroll position and eviction count after the last user-driven scroll change
    session,         \* ghost: whether start() ran, and how many times cleanup() ran
    last             \* ghost: the last operation, its inputs, locals and pre-state

vars == <<messages, scrollPosition, viewMode, updateStatus, isActive, inputMode,
          users, status, grabInput, sigintListeners, lastSeenTimestamp,
          client, height, width, clock, exited, history, anchor, session, last>>

----------------------------------------------------------------------------
(* Bounds and input sets *)

\* this.maxMessages (500 in the source), scaled down
maxMessages == 7

\* number of records the environment creates in one run
MaxArrivals == 2

\* clock ticks per second (1000 ms in the source), scaled down
TicksPerSecond == 2

NULL == "null"

\* terminal heights: 10 leaves room for one message, 18 sits on the boundary
\* between the two average-lines-per-message factors
Heights == {10, 18}

\* terminal widths: 80 columns hold every line of the model unwrapped
Widths == {80}

Names == {"alice", "bob"}

\* the name the local user joined with (ChatApp.username)
username == "alice"

Texts == {<<"h", "i">>, <<"y", "o">>}

\* the text of a line the user sent that the server has yet to echo
StaleText == <<"h", "i">>

\* lines the input field can resolve to
Lines == {<<"h", "i">>, <<" ", "y", "o", " ">>, <<" ">>, <<>>}

\* server timestamps of a chat payload; 0 stands for an absent (falsy) timestamp
Timestamps == {0, 1}

UpdateNotices == {"update available"}

SystemText == <<"s">>
ErrorText == <<"e">>
InfoText == <<"i">>

----------------------------------------------------------------------------
(* Helpers of the JavaScript runtime *)

Max(a, b) == IF a >= b THEN a ELSE b
Min(a, b) == IF a <= b THEN a ELSE b

\* Array.prototype.slice(start, end) on a 1-indexed sequence
slice(s, start, end) ==
    LET n == Len(s)
        from == IF start < 0 THEN Max(n + start, 0) ELSE Min(start, n)
        to == IF end < 0 THEN Max(n + end, 0) ELSE Min(end, n)
    IN  IF from >= to THEN <<>> ELSE SubSeq(s, from + 1, to)

\* Array.prototype.slice(start)
sliceFrom(s, start) == slice(s, start, Len(s))

RECURSIVE trimStart(_)
trimStart(s) == IF s # <<>> /\ Head(s) = " " THEN trimStart(Tail(s)) ELSE s

RECURSIVE trimEnd(_)
trimEnd(s) ==
    IF s # <<>> /\ s[Len(s)] = " " THEN trimEnd(SubSeq(s, 1, Len(s) - 1)) ELSE s

\* String.prototype.trim
trim(s) == trimEnd(trimStart(s))

\* Date.prototype.toLocaleTimeString: the label keeps whole seconds only
toLocaleTimeString(t) == t \div TicksPerSecond

----------------------------------------------------------------------------
(* The UserInterface object, as a record, and its methods *)

\* Besides the object's fields the record carries what its methods reach through
\* term and process (grabInput, sigintListeners, exited) and, for the claims, what
\* one handler did: records removed, index replaced, events emitted, calls that
\* changed the log or the roster, and the running count of cleanup() calls.
This ==
    [messages |-> messages, scrollPosition |-> scrollPosition, viewMode |-> viewMode,
     updateStatus |-> updateStatus, isActive |-> isActive, inputMode |-> inputMode,
     users |-> users, status |-> status, grabInput |-> grabInput,
     sigintListeners |-> sigintListeners, exited |-> exited,
     cleanups |-> session.cleanups, emitted |-> <<>>, logCalls |-> 0,
     rosterCalls |-> 0, removed |-> 0, pendingIndex |-> -1]

\* mutant: 1.5 lines per message whatever the height
getVisibleMessageCount_flatFactor(this, h) ==
    LET headerHeight == IF this.updateStatus # NULL THEN 4 ELSE 3
        inputHeight == 3
        contentHeight == h - headerHeight - inputHeight
        messageDisplayHeight == contentHeight - 2
    IN  IF messageDisplayHeight < 1 THEN 1
        ELSE Max(1, (messageDisplayHeight * 10) \div 15)

getVisibleMessageCount(this, h) ==
    LET headerHeight == IF this.updateStatus # NULL THEN 4 ELSE 3
        inputHeight == 3
        contentHeight == h - headerHeight - inputHeight
        messageDisplayHeight == contentHeight - 2
    IN  IF messageDisplayHeight < 1 THEN 1
        ELSE IF messageDisplayHeight < 10
             THEN Max(1, (messageDisplayHeight * 10) \div 12)
             ELSE Max(1, (messageDisplayHeight * 10) \div 15)

\* the bound every scroll method computes before it moves
maxScroll(this, h) == Max(0, Len(this.messages) - getVisibleMessageCount(this, h))

\* mutant: the step up is taken without looking at maxScroll
scrollUp_unguarded(this, h) ==
    [this EXCEPT !.scrollPosition = @ + 1, !.viewMode = "scrolling"]

scrollUp(this, h) ==
    IF this.scrollPosition < maxScroll(this, h)
    THEN [this EXCEPT !.scrollPosition = @ + 1, !.viewMode = "scrolling"]
    ELSE this

scrollDown(this) ==
    IF this.scrollPosition > 0
    THEN [this EXCEPT !.scrollPosition = @ - 1,
                      !.viewMode = IF this.scrollPosition - 1 = 0 THEN "normal" ELSE @]
    ELSE this

\* mutant: the page step is added without the cap at maxScroll
scrollPageUp_unclamped(this, h) ==
    LET pageSize == Max(1, getVisibleMessageCount(this, h) - 1)
    IN  [this EXCEPT !.scrollPosition = @ + pageSize, !.viewMode = "scrolling"]

scrollPageUp(this, h) ==
    LET pageSize == Max(1, getVisibleMessageCount(this, h) - 1)
    IN  [this EXCEPT !.scrollPosition = Min(maxScroll(this, h), @ + pageSize),
                     !.viewMode = "scrolling"]

scrollPageDown(this, h) ==
    LET pageSize == Max(1, getVisibleMessageCount(this, h) - 1)
        pos == Max(0, this.scrollPosition - pageSize)
    IN  [this EXCEPT !.scrollPosition = pos,
                     !.viewMode = IF pos = 0 THEN "normal" ELSE @]

scrollToTop(this, h) ==
    [this EXCEPT !.scrollPosition = maxScroll(this, h), !.viewMode = "scrolling"]

\* mutant: the position is reset but the mode is left as it was
scrollToBottom_keepsMode(this) == [this EXCEPT !.scrollPosition = 0]

scrollToBottom(this) ==
    [this EXCEPT !.scrollPosition = 0, !.viewMode = "normal"]

\* mutant: the position is not clamped to the new bound
adjustScrollPositionForResize_unclamped(this, h) ==
    [this EXCEPT !.viewMode = IF this.scrollPosition = 0 THEN "normal" ELSE @]

adjustScrollPositionForResize(this, h) ==
    LET pos == Min(this.scrollPosition, maxScroll(this, h))
    IN  [this EXCEPT !.scrollPosition = pos,
                     !.viewMode = IF pos = 0 THEN "normal" ELSE @]

\* the 'resize' listener of setupTerminal, run with the new height
onResize(this, h) ==
    IF this.isActive
    THEN IF this.viewMode = "normal" THEN scrollToBottom(this)
         ELSE adjustScrollPositionForResize(this, h)
    ELSE this

\* mutant: the newest records are returned whatever the scroll position
getMessagesToDisplay_ignoresScroll(this, h) ==
    IF Len(this.messages) = 0 THEN <<>>
    ELSE sliceFrom(this.messages,
                   Max(0, Len(this.messages) - Max(1, getVisibleMessageCount(this, h))))

getMessagesToDisplay(this, h) ==
    LET totalMessages == Len(this.messages)
        estimatedVisibleCount == getVisibleMessageCount(this, h)
    IN  IF totalMessages = 0 THEN <<>>
        ELSE IF this.viewMode = "normal" \/ this.scrollPosition = 0
             THEN sliceFrom(this.messages,
                            Max(0, totalMessages - Max(1, estimatedVisibleCount)))
             ELSE LET endIndex == totalMessages - this.scrollPosition
                      startIndex == Max(0, endIndex - estimatedVisibleCount)
                  IN  slice(this.messages, startIndex, endIndex)

\* mutant: the newest records are dropped instead of the oldest
trimMessages_dropsNewest(this) ==
    IF Len(this.messages) > maxMessages
    THEN LET removed == Len(this.messages) - maxMessages
             pos == Max(0, this.scrollPosition - removed)
         IN  [this EXCEPT !.messages = slice(@, 0, maxMessages),
                          !.removed = removed,
                          !.scrollPosition = IF @ > 0 THEN pos ELSE @,
                          !.viewMode = IF this.scrollPosition > 0 /\ pos = 0
                                       THEN "normal" ELSE @]
    ELSE this

\* mutant: the log is trimmed but the scroll position is not adjusted
trimMessages_keepsScroll(this) ==
    IF Len(this.messages) > maxMessages
    THEN [this EXCEPT !.messages = sliceFrom(@, -maxMessages),
                      !.removed = Len(this.messages) - maxMessages]
    ELSE this

trimMessages(this) ==
    IF Len(this.messages) > maxMessages
    THEN LET removed == Len(this.messages) - maxMessages
             pos == Max(0, this.scrollPosition - removed)
         IN  [this EXCEPT !.messages = sliceFrom(@, -maxMessages),
                          !.removed = removed,
                          !.scrollPosition = IF @ > 0 THEN pos ELSE @,
                          !.viewMode = IF this.scrollPosition > 0 /\ pos = 0
                                       THEN "normal" ELSE @]
    ELSE this

push(this, record) ==
    [this EXCEPT !.messages = Append(@, record), !.logCalls = @ + 1]

\* the record literals the add* methods build
pendingRecord(text, now) ==
    [type |-> "pending", text |-> text, timestamp |-> toLocaleTimeString(now),
     name |-> "You", id |-> now]

chatRecord(name, text, timestamp, now) ==
    [type |-> "chat", name |-> name, text |-> text,
     timestamp |-> IF timestamp # 0 THEN toLocaleTimeString(timestamp)
                   ELSE toLocaleTimeString(now)]

plainRecord(type, text, now) ==
    [type |-> type, text |-> text, timestamp |-> toLocaleTimeString(now)]

addPendingMessage(this, text, now) ==
    scrollToBottom(trimMessages(push(this, pendingRecord(text, now))))

\* mutant: the search runs from the oldest record forward
findPending_oldest(msgs, text) ==
    LET hits == {i \in 1..Len(msgs) : msgs[i].type = "pending" /\ msgs[i].text = text}
    IN  IF hits = {} THEN -1
        ELSE (CHOOSE i \in hits : \A j \in hits : i <= j) - 1

\* mutant: the search stops at the newest pending record whatever its text
findPending_anyText(msgs, text) ==
    LET hits == {i \in 1..Len(msgs) : msgs[i].type = "pending"}
    IN  IF hits = {} THEN -1
        ELSE (CHOOSE i \in hits : \A j \in hits : j <= i) - 1

\* the backward search of addChatMessage; 0-based index, -1 when nothing matches
findPending(msgs, text) ==
    LET hits == {i \in 1..Len(msgs) : msgs[i].type = "pending" /\ msgs[i].text = text}
    IN  IF hits = {} THEN -1
        ELSE (CHOOSE i \in hits : \A j \in hits : j <= i) - 1

\* mutant: the pending record is taken out and the confirmation goes to the end
addChatMessage_movesToEnd(this, name, text, timestamp, now) ==
    LET pendingIndex == findPending(this.messages, text)
        chat == chatRecord(name, text, timestamp, now)
        rest == SubSeq(this.messages, 1, pendingIndex) \o
                SubSeq(this.messages, pendingIndex + 2, Len(this.messages))
    IN  IF pendingIndex # -1
        THEN trimMessages([this EXCEPT !.messages = Append(rest, chat),
                                       !.pendingIndex = pendingIndex,
                                       !.logCalls = @ + 1])
        ELSE trimMessages(push(this, chat))

\* mutant: the confirmation is appended without looking for a pending record
addChatMessage_alwaysAppends(this, name, text, timestamp, now) ==
    trimMessages(push(this, chatRecord(name, text, timestamp, now)))

addChatMessage(this, name, text, timestamp, now) ==
    LET pendingIndex == findPending(this.messages, text)
        chat == chatRecord(name, text, timestamp, now)
    IN  IF pendingIndex # -1
        THEN trimMessages([this EXCEPT !.messages[pendingIndex + 1] = chat,
                                       !.pendingIndex = pendingIndex,
                                       !.logCalls = @ + 1])
        ELSE trimMessages(push(this, chat))

\* mutant: a system record pulls the view to the bottom, as a sent line does
addSystemMessage_snapsToBottom(this, text, now) ==
    scrollToBottom(trimMessages(push(this, plainRecord("system", text, now))))

addSystemMessage(this, text, now) ==
    trimMessages(push(this, plainRecord("system", text, now)))

addErrorMessage(this, text, now) ==
    trimMessages(push(this, plainRecord("error", text, now)))

addInfoMessage(this, text, now) ==
    trimMessages(push(this, plainRecord("info", text, now)))

setUpdateStatus(this, notice) == [this EXCEPT !.updateStatus = notice]

addUser(this, name) ==
    [this EXCEPT !.users = @ \cup {name}, !.rosterCalls = @ + 1]

removeUser(this, name) ==
    [this EXCEPT !.users = @ \ {name}, !.rosterCalls = @ + 1]

setStatus(this, text) == [this EXCEPT !.status = text]

cleanup(this) ==
    [this EXCEPT !.isActive = FALSE, !.inputMode = FALSE, !.grabInput = FALSE,
                 !.sigintListeners = <<>>, !.cleanups = @ + 1]

\* this.emit('quit'), with the listener ChatApp attached to it: process.exit(0)
emitQuit(this) ==
    [this EXCEPT !.emitted = Append(@, [event |-> "quit", arg |-> <<>>]),
                 !.exited = TRUE]

\* this.emit('message', message); ChatApp's listener hands the text to the
\* connection and touches nothing of the interface
emitMessage(this, message) ==
    [this EXCEPT !.emitted = Append(@, [event |-> "message", arg |-> message])]

QuitKeys == {"ESCAPE", "CTRL_C"}

\* the 'key' listener of setupKeyboardHandling
onKey(this, name, h) ==
    IF ~this.isActive THEN this
    ELSE IF name \in QuitKeys THEN emitQuit(cleanup(this))
    ELSE CASE name = "UP" -> scrollUp(this, h)
           [] name = "DOWN" -> scrollDown(this)
           [] name = "PAGE_UP" -> scrollPageUp(this, h)
           [] name = "PAGE_DOWN" -> scrollPageDown(this, h)
           [] name = "HOME" -> scrollToTop(this, h)
           [] name = "END" -> scrollToBottom(this)
           [] OTHER -> this

\* mutant: the line is sent and echoed as typed, spaces included
onInputLine_untrimmed(this, result, now) ==
    IF trim(result) # <<>>
    THEN scrollToBottom(addPendingMessage(emitMessage(this, result), result, now))
    ELSE this

\* one turn of the loop of startInputLoop, with the line the input field resolved to
onInputLine(this, result, now) ==
    IF trim(result) # <<>>
    THEN scrollToBottom(addPendingMessage(emitMessage(this, trim(result)),
                                          trim(result), now))
    ELSE this

\* String.prototype.toLowerCase, on the letters the model uses
toLowerCase(str) ==
    [i \in 1..Len(str) |->
        CASE str[i] = "A" -> "a"
          [] str[i] = "B" -> "b"
          [] str[i] = "Y" -> "y"
          [] OTHER -> str[i]]

\* String.prototype.startsWith
startsWith(str, prefix) ==
    Len(prefix) <= Len(str) /\ SubSeq(str, 1, Len(prefix)) = prefix

\* String.prototype.lastIndexOf, 0-based, -1 when c does not occur
lastIndexOf(str, c) ==
    LET hits == {i \in 1..Len(str) : str[i] = c}
    IN  IF hits = {} THEN -1
        ELSE (CHOOSE i \in hits : \A j \in hits : j <= i) - 1

\* the characters of a name
chars(name) ==
    CASE name = "alice" -> <<"a", "l", "i", "c", "e">>
      [] name = "bob" -> <<"b", "o", "b">>
      [] name = "Al" -> <<"A", "l">>
      [] name = "You" -> <<"Y", "o", "u">>

\* mutant: the fragment is compared with the names as they are written
handleAutoComplete_caseSensitive(this, input) ==
    IF input = <<>> THEN {}
    ELSE LET lastAtIndex == lastIndexOf(input, "@")
             searchTerm == sliceFrom(input, lastAtIndex + 1)
         IN  IF lastAtIndex = -1 THEN {}
             ELSE {slice(input, 0, lastAtIndex + 1) \o chars(user) :
                      user \in {u \in this.users :
                                    startsWith(chars(u), searchTerm)}}

\* the suggestions, as a set: the array lists them in the order the roster got
\* its names, which the roster of the model does not keep
handleAutoComplete(this, input) ==
    IF input = <<>> THEN {}
    ELSE LET lastAtIndex == lastIndexOf(input, "@")
             searchTerm == toLowerCase(sliceFrom(input, lastAtIndex + 1))
         IN  IF lastAtIndex = -1 THEN {}
             ELSE {slice(input, 0, lastAtIndex + 1) \o chars(user) :
                      user \in {u \in this.users :
                                    startsWith(toLowerCase(chars(u)), searchTerm)}}

\* the catch branch of the loop, for a rejection that names a cancel or an interrupt
onInputCancel(this) == emitQuit(cleanup(this))

\* start(): setupTerminal, setupInput, setupKeyboardHandling, startInputLoop
start(this) ==
    [this EXCEPT !.isActive = TRUE, !.inputMode = TRUE, !.grabInput = TRUE,
                 !.sigintListeners = Append(@, "ui")]

\* one 'SIGINT' listener of the process, by the place that registered it
sigintListener(this, who) ==
    CASE who = "index" -> [this EXCEPT !.exited = TRUE]
      [] who = "chatApp" -> [cleanup(this) EXCEPT !.exited = TRUE]
      [] who = "ui" -> emitQuit(cleanup(this))

\* process.emit: the listeners registered at the time of the signal run in
\* registration order; process.exit ends the run
RECURSIVE emitSignal(_, _)
emitSignal(this, listeners) ==
    IF listeners = <<>> \/ this.exited THEN this
    ELSE emitSignal(sigintListener(this, Head(listeners)), Tail(listeners))

onSIGINT(this) == emitSignal(this, this.sigintListeners)

\* the only 'SIGTERM' listener is the one of the entry script
onSIGTERM(this) == [this EXCEPT !.exited = TRUE]

----------------------------------------------------------------------------
(* Rendering.  A styled string is a sequence of tokens: one-character strings  *)
(* and ANSI codes, which take no column.                                       *)

AnsiCodes ==
    {"ESC[1m", "ESC[22m", "ESC[31m", "ESC[32m", "ESC[33m", "ESC[36m", "ESC[90m",
     "ESC[39m"}

\* a chalk style: the text between its opening and closing codes, the empty
\* string left as it is
chalk(open, close, str) == IF str = <<>> THEN <<>> ELSE open \o str \o close

gray(str) == chalk(<<"ESC[90m">>, <<"ESC[39m">>, str)
red(str) == chalk(<<"ESC[31m">>, <<"ESC[39m">>, str)
cyan(str) == chalk(<<"ESC[36m">>, <<"ESC[39m">>, str)
greenBold(str) == chalk(<<"ESC[32m", "ESC[1m">>, <<"ESC[22m", "ESC[39m">>, str)
yellowBold(str) == chalk(<<"ESC[33m", "ESC[1m">>, <<"ESC[22m", "ESC[39m">>, str)

stripAnsiCodes(str) == SelectSeq(str, LAMBDA c : c \notin AnsiCodes)

RECURSIVE decimal(_)
decimal(n) ==
    IF n < 10 THEN <<ToString(n)>> ELSE Append(decimal(n \div 10), ToString(n % 10))

\* a time label as it is printed
labelText(label) == IF label < 0 THEN <<"-">> \o decimal(-label) ELSE decimal(label)

\* String.prototype.split(' ')
RECURSIVE split(_)
split(str) ==
    LET gaps == {i \in 1..Len(str) : str[i] = " "}
    IN  IF gaps = {} THEN <<str>>
        ELSE LET i == CHOOSE g \in gaps : \A k \in gaps : g <= k
             IN  <<SubSeq(str, 1, i - 1)>> \o split(SubSeq(str, i + 1, Len(str)))

\* mutant: the indent is one space short
spaces_oneShort(n) == [i \in 1..(n - 1) |-> " "]

\* ' '.repeat(n)
RECURSIVE spaces(_)
spaces(n) == IF n <= 0 THEN <<>> ELSE Append(spaces(n - 1), " ")

endsWithSpace(str) == str # <<>> /\ str[Len(str)] = " "

SendingText == <<"(", "s", "e", "n", "d", "i", "n", "g", ".", ".", ".", ")">>

\* the content of a record, styled by its type
contentOf(msg) ==
    CASE msg.type = "chat" -> greenBold(chars(msg.name)) \o <<":", " ">> \o msg.text
      [] msg.type = "system" -> gray(msg.text)
      [] msg.type = "error" -> red(msg.text)
      [] msg.type = "info" -> cyan(msg.text)
      [] msg.type = "pending" ->
            yellowBold(chars(msg.name)) \o <<":", " ">> \o gray(msg.text) \o <<" ">>
                \o gray(SendingText)
      [] OTHER -> msg.text

timestampOf(msg) == <<"[">> \o labelText(msg.timestamp) \o <<"]">>

\* the word loop of formatMessageToLines: acc holds lines, currentLine and
\* currentPlainLine
RECURSIVE wrapWords(_, _, _, _)
wrapWords(words, acc, timestamp, maxWidth) ==
    IF words = <<>> THEN acc
    ELSE LET word == Head(words)
             plainWord == stripAnsiCodes(word)
             testLine == acc.currentPlainLine
                             \o (IF endsWithSpace(acc.currentPlainLine) THEN <<>>
                                 ELSE <<" ">>)
                             \o plainWord
             indent == spaces(Len(timestamp) + 2)
             next ==
                 IF Len(testLine) <= maxWidth
                 THEN IF acc.currentLine = gray(timestamp) \o <<" ">>
                      THEN [acc EXCEPT !.currentLine = @ \o word,
                                       !.currentPlainLine = @ \o plainWord]
                      ELSE [acc EXCEPT !.currentLine = @ \o <<" ">> \o word,
                                       !.currentPlainLine = @ \o <<" ">> \o plainWord]
                 ELSE [lines |-> IF trim(acc.currentLine) # gray(timestamp)
                                 THEN Append(acc.lines, acc.currentLine)
                                 ELSE acc.lines,
                       currentLine |-> gray(indent) \o word,
                       currentPlainLine |-> indent \o plainWord]
         IN  wrapWords(Tail(words), next, timestamp, maxWidth)

\* mutant: a record that fits is returned without its styling
formatMessageToLines_unstyled(msg, maxWidth) ==
    LET fullMessage == gray(timestampOf(msg)) \o <<" ">> \o contentOf(msg)
    IN  IF Len(stripAnsiCodes(fullMessage)) <= maxWidth
        THEN <<stripAnsiCodes(fullMessage)>>
        ELSE <<fullMessage>>

\* mutant: no line at all for a width below 1
formatMessageToLines_emptyBelowOne(msg, maxWidth) ==
    IF maxWidth < 1 THEN <<>>
    ELSE <<gray(timestampOf(msg)) \o <<" ">> \o contentOf(msg)>>

formatMessageToLines(msg, maxWidth) ==
    LET timestamp == timestampOf(msg)
        content == contentOf(msg)
        fullMessage == gray(timestamp) \o <<" ">> \o content
        plainText == stripAnsiCodes(fullMessage)
        done == wrapWords(split(content),
                          [lines |-> <<>>,
                           currentLine |-> gray(timestamp) \o <<" ">>,
                           currentPlainLine |-> timestamp \o <<" ">>],
                          timestamp, maxWidth)
        lines == IF trim(done.currentLine) # gray(timestamp)
                 THEN Append(done.lines, done.currentLine)
                 ELSE done.lines
    IN  IF Len(plainText) <= maxWidth THEN <<fullMessage>>
        ELSE IF Len(lines) > 0 THEN lines ELSE <<fullMessage>>

\* the lines of a run of records, oldest first
RECURSIVE linesOf(_, _)
linesOf(msgs, maxWidth) ==
    IF msgs = <<>> THEN <<>>
    ELSE formatMessageToLines(Head(msgs), maxWidth) \o linesOf(Tail(msgs), maxWidth)

\* the rows renderMessages writes below the title and the rule of the message
\* pane, top to bottom, on a terminal of h rows and w columns
renderMessages(this, h, w) ==
    LET headerHeight == IF this.updateStatus # NULL THEN 4 ELSE 3
        inputHeight == 3
        contentHeight == h - headerHeight - inputHeight
        messageAreaWidth == (w * 3) \div 4
        messageDisplayHeight == contentHeight - 2
        maxLineWidth == messageAreaWidth - 2
        messagesToShow == getMessagesToDisplay(this, h)
        renderedLines == linesOf(messagesToShow, maxLineWidth)
        availableLines == messageDisplayHeight
        linesToRender == IF this.viewMode = "normal" /\ Len(messagesToShow) > 0
                         THEN sliceFrom(renderedLines, -availableLines)
                         ELSE renderedLines
    IN  slice(linesToRender, 0, Max(0, messageDisplayHeight))

\* render(): nothing is written unless the interface is active
render(this, h, w) == IF ~this.isActive THEN <<>> ELSE renderMessages(this, h, w)

\* mutant: painting moves the view to the newest record
afterRender_snapsToBottom(this, h, w) == scrollToBottom(this)

\* the object after render(): the header, the panes and the prompt are written
\* to the terminal from the fields, and no field is assigned
afterRender(this, h, w) == this

----------------------------------------------------------------------------
(* The connection: WebSocketClient.handleMessage and the listeners ChatApp     *)
(* attaches to the client.  A payload is the parsed JSON object; an absent or  *)
(* empty field is <<>> (texts), NULL (names), 0 (timestamp) or FALSE (ready).  *)

Blank ==
    [error |-> <<>>, joined |-> NULL, quit |-> NULL, ready |-> FALSE,
     timestamp |-> 0, name |-> NULL, message |-> <<>>]

\* the name of the other participant, and the server timestamps of chat payloads
Peer == "bob"
WireTimestamps == {0, 1, 2}

Payloads ==
    {[Blank EXCEPT !.error = ErrorText], [Blank EXCEPT !.joined = Peer],
     [Blank EXCEPT !.quit = Peer], [Blank EXCEPT !.ready = TRUE]}
    \cup {[Blank EXCEPT !.name = n, !.message = m, !.timestamp = t] :
              n \in {NULL, username}, m \in {<<>>, StaleText}, t \in WireTimestamps}

\* mutant: every timestamped payload is forwarded, whatever was seen before
handleMessage_unfiltered(data, lastSeen) ==
    IF data.error # <<>>
    THEN [event |-> "error", arg |-> data.error, lastSeenTimestamp |-> lastSeen]
    ELSE IF data.joined # NULL
    THEN [event |-> "userJoined", arg |-> data.joined, lastSeenTimestamp |-> lastSeen]
    ELSE IF data.quit # NULL
    THEN [event |-> "userLeft", arg |-> data.quit, lastSeenTimestamp |-> lastSeen]
    ELSE IF data.ready \/ data.timestamp # 0
    THEN [event |-> "message", arg |-> data, lastSeenTimestamp |-> data.timestamp]
    ELSE [event |-> NULL, arg |-> data, lastSeenTimestamp |-> lastSeen]

\* what handleMessage emits for a payload, and the lastSeenTimestamp it leaves;
\* event NULL when it emits nothing
handleMessage(data, lastSeen) ==
    IF data.error # <<>>
    THEN [event |-> "error", arg |-> data.error, lastSeenTimestamp |-> lastSeen]
    ELSE IF data.joined # NULL
    THEN [event |-> "userJoined", arg |-> data.joined, lastSeenTimestamp |-> lastSeen]
    ELSE IF data.quit # NULL
    THEN [event |-> "userLeft", arg |-> data.quit, lastSeenTimestamp |-> lastSeen]
    ELSE IF data.ready
    THEN [event |-> "message", arg |-> data, lastSeenTimestamp |-> lastSeen]
    ELSE IF data.timestamp # 0 /\ data.timestamp > lastSeen
    THEN [event |-> "message", arg |-> data, lastSeenTimestamp |-> data.timestamp]
    ELSE [event |-> NULL, arg |-> data, lastSeenTimestamp |-> lastSeen]

onConnected(this, now) ==
    addSystemMessage(setStatus(this, "Connected"), SystemText, now)

onDisconnected(this, now) ==
    addSystemMessage(setStatus(this, "Disconnected"), SystemText, now)

onError(this, error, now) == addErrorMessage(this, error, now)

\* mutant: the listener logs whatever payload it is given
onMessage_unguarded(this, data, now) ==
    addChatMessage(this, data.name, data.message, data.timestamp, now)

onMessage(this, data, now) ==
    IF data.name # NULL /\ data.message # <<>>
    THEN addChatMessage(this, data.name, data.message, data.timestamp, now)
    ELSE this

onReady(this, now) ==
    addSystemMessage(addSystemMessage(this, SystemText, now), SystemText, now)

\* mutant: the roster changes but no notice is logged
onUserJoined_silent(this, name, now) == addUser(this, name)

onUserJoined(this, name, now) ==
    addSystemMessage(addUser(this, name), SystemText, now)

onUserLeft(this, name, now) ==
    addSystemMessage(removeUser(this, name), SystemText, now)

\* EventEmitter.emit on the client: the listener ChatApp attached to the event,
\* nothing for an event without a listener
emit(this, event, arg, now) ==
    CASE event = "connected" -> onConnected(this, now)
      [] event = "disconnected" -> onDisconnected(this, now)
      [] event = "error" -> onError(this, arg, now)
      [] event = "message" -> onMessage(this, arg, now)
      [] event = "ready" -> onReady(this, now)
      [] event = "userJoined" -> onUserJoined(this, arg, now)
      [] event = "userLeft" -> onUserLeft(this, arg, now)
      [] OTHER -> this

----------------------------------------------------------------------------
(* WebSocketClient's connection state.  A socket is a record: its state        *)
(* ("connecting", "open", "failed" after an 'error' event, "closed", and      *)
(* after ws.close() "aborted" for a connecting and "closing" for an open one), *)
(* the                                                                         *)
(* promise connect() returned for it ("pending", "resolved", "rejected"),      *)
(* whether the caller awaits that promise, and whether the 10 s connection     *)
(* timeout of connect() is still armed.  Sockets are kept in creation order;   *)
(* every socket keeps the handlers setupEventHandlers attached to it.          *)

maxReconnectAttempts == 5

\* the number of logged connection events a run of the client alone goes through
ClientEvents == 6

\* the client after its constructor
newClient ==
    [connected |-> FALSE, reconnectAttempts |-> 0, timers |-> 0, sockets |-> <<>>,
     ws |-> 0, unhandled |-> 0, disconnected |-> FALSE]

newSocket(awaited) ==
    [state |-> "connecting", promise |-> "pending", awaited |-> awaited,
     timeout |-> TRUE]

\* connect(): a new socket with the handlers attached, the 10 s timeout armed;
\* this.ws is the position of the socket, 0 for null
connect(c, awaited) ==
    [c EXCEPT !.sockets = Append(@, newSocket(awaited)), !.ws = Len(c.sockets) + 1]

\* reject(error) on the promise of socket i: nothing once it is settled; a
\* rejection nobody awaits is an unhandled rejection
reject(c, i) ==
    IF c.sockets[i].promise # "pending" THEN c
    ELSE [c EXCEPT !.sockets[i].promise = "rejected",
                   !.unhandled = IF c.sockets[i].awaited THEN @ ELSE @ + 1]

\* mutant: the timer is armed and the counter left where it is
scheduleReconnect_uncounted(c) == [c EXCEPT !.timers = @ + 1]

\* 'reconnecting' has no listener; the timer is armed
scheduleReconnect(c) ==
    [c EXCEPT !.reconnectAttempts = @ + 1, !.timers = @ + 1]

\* the two once-handlers of connect() and the handlers of setupEventHandlers,
\* without the events they emit
onOpen(c, i) ==
    [c EXCEPT !.connected = TRUE, !.reconnectAttempts = 0,
              !.sockets[i].state = "open",
              !.sockets[i].promise = IF @ = "pending" THEN "resolved" ELSE @]

onClose(c, i) ==
    LET d == [c EXCEPT !.connected = FALSE, !.sockets[i].state = "closed"]
    IN  IF d.reconnectAttempts < maxReconnectAttempts THEN scheduleReconnect(d) ELSE d

onSocketError(c, i) ==
    LET d == [c EXCEPT !.connected = FALSE, !.sockets[i].state = "failed"]
        e == IF d.reconnectAttempts < maxReconnectAttempts
             THEN scheduleReconnect(d) ELSE d
    IN  reject(e, i)

\* the connection timeout of socket i fires
onConnectTimeout(c, i) ==
    LET d == [c EXCEPT !.sockets[i].timeout = FALSE]
    IN  IF ~d.connected THEN reject(d, i) ELSE d

\* the timer of scheduleReconnect fires
onReconnectTimer(c) ==
    LET d == [c EXCEPT !.timers = @ - 1]
    IN  IF ~d.connected THEN connect(d, FALSE) ELSE d

\* what ws.close() leaves of a socket until its events arrive
afterWsClose(socket) ==
    [socket EXCEPT !.state = CASE @ = "connecting" -> "aborted"
                               [] @ = "open" -> "closing"
                               [] OTHER -> @]

\* disconnect(); the ghost field disconnected records the call
disconnect(c) ==
    LET d == [c EXCEPT !.connected = FALSE,
                       !.reconnectAttempts = maxReconnectAttempts,
                       !.disconnected = TRUE]
    IN  IF c.ws # 0
        THEN [d EXCEPT !.sockets[c.ws] = afterWsClose(@), !.ws = 0]
        ELSE d

\* the client once startChatInterface's await of connect() returned
established == onOpen(connect(newClient, TRUE), 1)

----------------------------------------------------------------------------
(* Ghost bookkeeping *)

evictedCount(hist, msgs) == Len(hist) - Len(msgs)

\* the log of n system records that n join notices leave behind
backlog(n) == [i \in 1..n |-> plainRecord("system", SystemText, i - n)]

NoArg == <<>>

\* the history after a handler left the object in state u: the replaced record
\* overwritten, the appended records added
historyAfter(u) ==
    IF u.pendingIndex # -1
    THEN [history EXCEPT ![evictedCount(history, messages) + u.pendingIndex + 1] =
                             u.messages[u.pendingIndex + 1]]
    ELSE history \o SubSeq(u.messages, Len(u.messages) - u.logCalls + 1,
                           Len(u.messages))

\* installs the object state u as the next state and records operation op
Install(u, op, arg, userDriven, newHistory) ==
    /\ messages' = u.messages
    /\ scrollPosition' = u.scrollPosition
    /\ viewMode' = u.viewMode
    /\ updateStatus' = u.updateStatus
    /\ isActive' = u.isActive
    /\ inputMode' = u.inputMode
    /\ users' = u.users
    /\ status' = u.status
    /\ grabInput' = u.grabInput
    /\ sigintListeners' = u.sigintListeners
    /\ exited' = u.exited
    /\ session' = [started |-> session.started \/ op = "start",
                   cleanups |-> u.cleanups]
    /\ history' = newHistory
    /\ anchor' = IF userDriven
                 THEN [scroll |-> u.scrollPosition,
                       evicted |-> evictedCount(newHistory, u.messages)]
                 ELSE anchor
    /\ last' = [op |-> op, arg |-> arg, removed |-> u.removed,
                pendingIndex |-> u.pendingIndex, scrollPosition |-> scrollPosition,
                emitted |-> u.emitted, logCalls |-> u.logCalls,
                rosterCalls |-> u.rosterCalls]

----------------------------------------------------------------------------
(* Initial states *)

\* the ghost record of an operation that took no input and changed nothing
LastOf(op) ==
    [op |-> op, arg |-> NoArg, removed |-> 0, pendingIndex |-> -1,
     scrollPosition |-> 0, emitted |-> <<>>, logCalls |-> 0, rosterCalls |-> 0]

\* the constructor, before any event
InitWith(log) ==
    /\ messages = log
    /\ scrollPosition = 0
    /\ viewMode = "normal"
    /\ updateStatus = NULL
    /\ isActive = FALSE
    /\ inputMode = FALSE
    /\ users = {}
    /\ status = "Initializing..."
    /\ grabInput = FALSE
    /\ sigintListeners = <<"index", "chatApp">>
    /\ lastSeenTimestamp = 0
    /\ client = IF log = <<>> THEN newClient ELSE established
    /\ height \in Heights
    /\ width \in Widths
    /\ clock = 1
    /\ exited = FALSE
    /\ history = log
    /\ anchor = [scroll |-> 0, evicted |-> 0]
    /\ session = [started |-> FALSE, cleanups |-> 0]
    /\ last = LastOf("new")

Init == InitWith(<<>>)

\* a session whose log was filled to capacity by a backlog of join notices
InitBacklog == InitWith(backlog(maxMessages))

\* a session whose backlog leaves room for two more records
InitPartial == InitWith(backlog(maxMessages - 2))

ScrollHeights == 7..22

\* a started session with any backlog, any terminal height, with or without the
\* update notice
InitScroll ==
    \E n \in 0..maxMessages, notice \in {NULL} \cup UpdateNotices :
        /\ messages = backlog(n)
        /\ scrollPosition = 0
        /\ viewMode = "normal"
        /\ updateStatus = notice
        /\ isActive = TRUE
        /\ inputMode = TRUE
        /\ users = {}
        /\ status = "Connected"
        /\ grabInput = TRUE
        /\ sigintListeners = <<"index", "chatApp", "ui">>
        /\ lastSeenTimestamp = 0
        /\ client = established
        /\ height \in ScrollHeights
        /\ width \in Widths
        /\ clock = 1
        /\ exited = FALSE
        /\ history = backlog(n)
        /\ anchor = [scroll |-> 0, evicted |-> 0]
        /\ session = [started |-> TRUE, cleanups |-> 0]
        /\ last = LastOf("start")

\* the log after a line was sent while the connection was down, never confirmed,
\* and maxMessages - 1 join notices followed it
staleLog ==
    <<pendingRecord(StaleText, 1 - maxMessages)>> \o backlog(maxMessages - 1)

\* a started session whose oldest record is a pending one, the log at capacity
InitStalePending ==
    /\ messages = staleLog
    /\ scrollPosition = 0
    /\ viewMode = "normal"
    /\ updateStatus = NULL
    /\ isActive = TRUE
    /\ inputMode = TRUE
    /\ users = {}
    /\ status = "Initializing..."
    /\ grabInput = TRUE
    /\ sigintListeners = <<"index", "chatApp", "ui">>
    /\ lastSeenTimestamp = 0
    /\ client = established
    /\ height \in Heights
    /\ width \in Widths
    /\ clock = 1
    /\ exited = FALSE
    /\ history = staleLog
    /\ anchor = [scroll |-> 0, evicted |-> 0]
    /\ session = [started |-> TRUE, cleanups |-> 0]
    /\ last = LastOf("start")

\* terminal sizes for rendering: 7 and 8 rows leave no row for messages, 16
\* columns wrap every record of renderRecords
RenderHeights == 7..12
RenderWidths == {16, 80}

LongText == <<"h", "i", " ", "y", "o", " ", "h", "i">>

\* a join notice, a chat message of three words and a line just sent
renderRecords ==
    <<plainRecord("system", SystemText, -2), chatRecord(Peer, LongText, 0, -1),
      pendingRecord(StaleText, 0)>>

\* a started session showing any run of renderRecords on any terminal size
InitRender ==
    \E i, j \in 0..Len(renderRecords), notice \in {NULL} \cup UpdateNotices :
        /\ messages = SubSeq(renderRecords, i + 1, j)
        /\ scrollPosition = 0
        /\ viewMode = "normal"
        /\ updateStatus = notice
        /\ isActive = TRUE
        /\ inputMode = TRUE
        /\ users = {}
        /\ status = "Connected"
        /\ grabInput = TRUE
        /\ sigintListeners = <<"index", "chatApp", "ui">>
        /\ lastSeenTimestamp = 0
        /\ client = established
        /\ height \in RenderHeights
        /\ width \in RenderWidths
        /\ clock = 1
        /\ exited = FALSE
        /\ history = messages
        /\ anchor = [scroll |-> 0, evicted |-> 0]
        /\ session = [started |-> TRUE, cleanups |-> 0]
        /\ last = LastOf("start")

\* terminal widths for wrapping: from a message pane of no column at all to one
\* that holds every record of wrapRecords unwrapped
WrapWidths == 3..36

SpacedText == <<"a", " ", " ", "b", " ", "c">>
WordText == <<"h", "e", "l", "l", "o">>

\* one record of every type, short and long, and a text with two spaces in a row
wrapRecords ==
    {plainRecord("system", SystemText, 0), plainRecord("system", SpacedText, 0),
     plainRecord("error", ErrorText, 0), plainRecord("info", LongText, 0),
     chatRecord(Peer, LongText, 0, 0), chatRecord(Peer, WordText, 0, 0),
     pendingRecord(StaleText, 0)}

\* a started session showing one record on a terminal of any width
InitWrap ==
    \E record \in wrapRecords :
        /\ messages = <<record>>
        /\ scrollPosition = 0
        /\ viewMode = "normal"
        /\ updateStatus = NULL
        /\ isActive = TRUE
        /\ inputMode = TRUE
        /\ users = {}
        /\ status = "Connected"
        /\ grabInput = TRUE
        /\ sigintListeners = <<"index", "chatApp", "ui">>
        /\ lastSeenTimestamp = 0
        /\ client = established
        /\ height = 10
        /\ width \in WrapWidths
        /\ clock = 1
        /\ exited = FALSE
        /\ history = messages
        /\ anchor = [scroll |-> 0, evicted |-> 0]
        /\ session = [started |-> TRUE, cleanups |-> 0]
        /\ last = LastOf("start")

\* names on the roster, and what the input field can hold when the user asks
\* for a completion
MentionNames == {"alice", "Al", "bob", "You"}

MentionInputs ==
    {<<>>, <<"h", "i">>, <<"@">>, <<"@", "a">>, <<"@", "A">>, <<"@", "a", "l">>,
     <<"@", "A", "L", "I">>, <<"@", "b">>, <<"h", "i", " ", "@", "y", "O">>,
     <<"@", "a", " ", "@", "B">>, <<"a", "@", "x">>, <<"@", "b", "o", "b", "b">>}

\* a started session with any roster, the join notices in the log
InitMention ==
    /\ scrollPosition = 0
    /\ viewMode = "normal"
    /\ updateStatus = NULL
    /\ isActive = TRUE
    /\ inputMode = TRUE
    /\ users \in SUBSET MentionNames
    /\ messages = backlog(Cardinality(users))
    /\ status = "Connected"
    /\ grabInput = TRUE
    /\ sigintListeners = <<"index", "chatApp", "ui">>
    /\ lastSeenTimestamp = 0
    /\ client = established
    /\ height = 10
    /\ width \in Widths
    /\ clock = 1
    /\ exited = FALSE
    /\ history = messages
    /\ anchor = [scroll |-> 0, evicted |-> 0]
    /\ session = [started |-> TRUE, cleanups |-> 0]
    /\ last = LastOf("start")

\* the log after the welcome notice, a line sent and not yet echoed, and a join
\* notice
unechoedLog ==
    <<plainRecord("system", SystemText, -2), pendingRecord(StaleText, -1),
      plainRecord("system", SystemText, 0)>>

\* a started session with an unechoed line in a log that has room
InitDuplicates ==
    /\ messages = unechoedLog
    /\ scrollPosition = 0
    /\ viewMode = "normal"
    /\ updateStatus = NULL
    /\ isActive = TRUE
    /\ inputMode = TRUE
    /\ users = {}
    /\ status = "Connected"
    /\ grabInput = TRUE
    /\ sigintListeners = <<"index", "chatApp", "ui">>
    /\ lastSeenTimestamp = 0
    /\ client = established
    /\ height \in Heights
    /\ width \in Widths
    /\ clock = 1
    /\ exited = FALSE
    /\ history = unechoedLog
    /\ anchor = [scroll |-> 0, evicted |-> 0]
    /\ session = [started |-> TRUE, cleanups |-> 0]
    /\ last = LastOf("start")

\* a started session on an established connection: 'connected' logged its
\* notice before start()
InitReconnect ==
    /\ messages = backlog(1)
    /\ scrollPosition = 0
    /\ viewMode = "normal"
    /\ updateStatus = NULL
    /\ isActive = TRUE
    /\ inputMode = TRUE
    /\ users = {}
    /\ status = "Connected"
    /\ grabInput = TRUE
    /\ sigintListeners = <<"index", "chatApp", "ui">>
    /\ lastSeenTimestamp = 0
    /\ client = established
    /\ height \in Heights
    /\ width \in Widths
    /\ clock = 1
    /\ exited = FALSE
    /\ history = backlog(1)
    /\ anchor = [scroll |-> 0, evicted |-> 0]
    /\ session = [started |-> TRUE, cleanups |-> 0]
    /\ last = LastOf("start")

\* the same session at an earlier clock, leaving room for the notices of several
\* lost connections
InitAttempts ==
    /\ messages = backlog(1)
    /\ scrollPosition = 0
    /\ viewMode = "normal"
    /\ updateStatus = NULL
    /\ isActive = TRUE
    /\ inputMode = TRUE
    /\ users = {}
    /\ status = "Connected"
    /\ grabInput = TRUE
    /\ sigintListeners = <<"index", "chatApp", "ui">>
    /\ lastSeenTimestamp = 0
    /\ client = established
    /\ height = 10
    /\ width \in Widths
    /\ clock = MaxArrivals - ClientEvents + 1
    /\ exited = FALSE
    /\ history = backlog(1)
    /\ anchor = [scroll |-> 0, evicted |-> 0]
    /\ session = [started |-> TRUE, cleanups |-> 0]
    /\ last = LastOf("start")

----------------------------------------------------------------------------
(* Actions: one per event the process handles *)

\* ui.start() after the connection is up
Start ==
    /\ ~exited /\ ~isActive /\ last.op # "start"
    /\ Install(start(This), "start", NoArg, FALSE, history)
    /\ UNCHANGED <<lastSeenTimestamp, client, height, width, clock>>

Key(name) ==
    /\ ~exited /\ isActive
    /\ Install(onKey(This, name, height), name, NoArg, name \notin QuitKeys, history)
    /\ UNCHANGED <<lastSeenTimestamp, client, height, width, clock>>

KeyUp == Key("UP")
KeyDown == Key("DOWN")
KeyPageUp == Key("PAGE_UP")
KeyPageDown == Key("PAGE_DOWN")
KeyHome == Key("HOME")
KeyEnd == Key("END")
KeyQuit == \E name \in QuitKeys : Key(name)

\* the terminal changes size; the listener exists once start() has run
Resize ==
    \E h \in Heights \ {height} :
        /\ ~exited
        /\ height' = h
        /\ Install(onResize(This, h), "resize", <<h>>, isActive, history)
        /\ UNCHANGED <<lastSeenTimestamp, client, width, clock>>

\* the input field resolves to a line
InputLine ==
    \E result \in Lines :
        /\ ~exited /\ isActive /\ inputMode
        /\ trim(result) # <<>> => clock <= MaxArrivals
        /\ Install(onInputLine(This, result, clock), "inputLine", <<result>>,
                   trim(result) # <<>>,
                   IF trim(result) # <<>>
                   THEN Append(history, pendingRecord(trim(result), clock))
                   ELSE history)
        /\ clock' = IF trim(result) # <<>> THEN clock + 1 ELSE clock
        /\ UNCHANGED <<lastSeenTimestamp, client, height, width>>

\* addChatMessage, called by the 'message' listener for a payload with a name
\* and a text
ChatArrives ==
    \E name \in Names, text \in Texts, timestamp \in Timestamps :
        LET u == addChatMessage(This, name, text, timestamp, clock)
            rec == chatRecord(name, text, timestamp, clock)
            at == evictedCount(history, messages) + u.pendingIndex + 1
        IN  /\ ~exited /\ clock <= MaxArrivals
            /\ Install(u, "addChatMessage", <<name, text, timestamp>>, FALSE,
                       IF u.pendingIndex # -1 THEN [history EXCEPT ![at] = rec]
                       ELSE Append(history, rec))
            /\ clock' = clock + 1
            /\ UNCHANGED <<lastSeenTimestamp, client, height, width>>

\* addSystemMessage, called by the connection and roster listeners
SystemArrives ==
    /\ ~exited /\ clock <= MaxArrivals
    /\ Install(addSystemMessage(This, SystemText, clock), "addSystemMessage",
               <<SystemText>>, FALSE,
               Append(history, plainRecord("system", SystemText, clock)))
    /\ clock' = clock + 1
    /\ UNCHANGED <<lastSeenTimestamp, client, height, width>>

\* addErrorMessage, called by the 'error' listener
ErrorArrives ==
    /\ ~exited /\ clock <= MaxArrivals
    /\ Install(addErrorMessage(This, ErrorText, clock), "addErrorMessage",
               <<ErrorText>>, FALSE,
               Append(history, plainRecord("error", ErrorText, clock)))
    /\ clock' = clock + 1
    /\ UNCHANGED <<lastSeenTimestamp, client, height, width>>

\* showUpdateInUI: the info record, then the notice line
InfoArrives ==
    /\ ~exited /\ clock <= MaxArrivals
    /\ Install(addInfoMessage(This, InfoText, clock), "addInfoMessage",
               <<InfoText>>, FALSE,
               Append(history, plainRecord("info", InfoText, clock)))
    /\ clock' = clock + 1
    /\ UNCHANGED <<lastSeenTimestamp, client, height, width>>

UpdateNotice ==
    \E notice \in UpdateNotices :
        /\ ~exited /\ updateStatus = NULL
        /\ Install(setUpdateStatus(This, notice), "setUpdateStatus", <<notice>>,
                   FALSE, history)
        /\ UNCHANGED <<lastSeenTimestamp, client, height, width, clock>>

\* the events of a session whose interface has started
NextStarted ==
    \/ KeyUp \/ KeyDown \/ KeyPageUp \/ KeyPageDown \/ KeyHome \/ KeyEnd \/ KeyQuit
    \/ Resize
    \/ InputLine
    \/ ChatArrives \/ SystemArrives \/ ErrorArrives \/ InfoArrives
    \/ UpdateNotice

Next == Start \/ NextStarted

Spec == Init /\ [][Next]_vars

SpecBacklog == InitBacklog /\ [][Next]_vars

SpecPartial == InitPartial /\ [][Next]_vars

\* the scroll keys alone, over a fixed log and a fixed terminal
NextScroll == KeyUp \/ KeyDown \/ KeyPageUp \/ KeyPageDown \/ KeyHome \/ KeyEnd

SpecScroll == InitScroll /\ [][NextScroll]_vars

\* the input field rejects with a cancellation while the loop awaits it
InputCancel ==
    /\ ~exited /\ isActive /\ inputMode
    /\ Install(onInputCancel(This), "inputCancel", NoArg, FALSE, history)
    /\ UNCHANGED <<lastSeenTimestamp, client, height, width, clock>>

\* the process receives SIGINT
SIGINT ==
    /\ ~exited
    /\ Install(onSIGINT(This), "SIGINT", NoArg, FALSE, history)
    /\ UNCHANGED <<lastSeenTimestamp, client, height, width, clock>>

\* the process receives SIGTERM
SIGTERM ==
    /\ ~exited
    /\ Install(onSIGTERM(This), "SIGTERM", NoArg, FALSE, history)
    /\ UNCHANGED <<lastSeenTimestamp, client, height, width, clock>>

SpecStalePending == InitStalePending /\ [][NextStarted]_vars

\* lines sent again before the server echoed them, and the echoes
NextDuplicates == InputLine \/ ChatArrives \/ SystemArrives \/ KeyUp \/ KeyEnd

SpecDuplicates == InitDuplicates /\ [][NextDuplicates]_vars

\* the terminal changes size, in rows, in columns or in both
ResizeRender ==
    \E h \in RenderHeights, w \in RenderWidths :
        /\ ~exited
        /\ <<h, w>> # <<height, width>>
        /\ height' = h
        /\ width' = w
        /\ Install(onResize(This, h), "resize", <<h, w>>, isActive, history)
        /\ UNCHANGED <<lastSeenTimestamp, client, clock>>

\* the terminal changes its number of columns
ResizeWidth ==
    \E w \in WrapWidths \ {width} :
        /\ ~exited
        /\ width' = w
        /\ Install(onResize(This, height), "resize", <<height, w>>, isActive, history)
        /\ UNCHANGED <<lastSeenTimestamp, client, height, clock>>

\* one record re-wrapped as the terminal narrows and widens
NextWrap == ResizeWidth \/ KeyEnd

SpecWrap == InitWrap /\ [][NextWrap]_vars

\* a repaint with nothing changed, as setStatus does when given the status the
\* interface already shows
Render ==
    /\ ~exited
    /\ Install(afterRender(This, height, width), "render", NoArg, FALSE, history)
    /\ UNCHANGED <<lastSeenTimestamp, client, height, width, clock>>

\* scrolling, resizing and repainting over a fixed log
NextRender == KeyUp \/ KeyDown \/ KeyHome \/ KeyEnd \/ ResizeRender \/ Render

SpecRender == InitRender /\ [][NextRender]_vars

\* the client emits event with arg to ChatApp's listener
Deliver(event, arg, op) ==
    LET u == emit(This, event, arg, clock)
    IN  /\ ~exited
        /\ u.logCalls > 0 => clock <= MaxArrivals
        /\ Install(u, op, <<arg>>, FALSE, historyAfter(u))
        /\ clock' = IF u.logCalls > 0 THEN clock + 1 ELSE clock
        /\ UNCHANGED <<height, width>>

\* the client emits 'connected', on the first connection or on a reconnection;
\* the client's own state is followed by SocketOpen, SocketClose and SocketError
WsOpen ==
    /\ Deliver("connected", NoArg, "connected")
    /\ UNCHANGED <<lastSeenTimestamp, client>>

\* the client emits 'disconnected'
WsClose ==
    /\ Deliver("disconnected", NoArg, "disconnected")
    /\ UNCHANGED <<lastSeenTimestamp, client>>

\* the client emits 'error' for a socket error
WsError ==
    /\ Deliver("error", ErrorText, "error")
    /\ UNCHANGED <<lastSeenTimestamp, client>>

\* the socket delivers a payload: handleMessage, then the listener of the event
\* it emits
WsMessage ==
    \E data \in Payloads :
        LET e == handleMessage(data, lastSeenTimestamp)
        IN  /\ Deliver(e.event, e.arg, IF e.event = NULL THEN "dropped" ELSE e.event)
            /\ lastSeenTimestamp' = e.lastSeenTimestamp
            /\ UNCHANGED client

\* the connection's events, with the user sending lines and scrolling
NextWire ==
    \/ Start \/ KeyUp \/ KeyEnd \/ InputLine
    \/ WsOpen \/ WsClose \/ WsError \/ WsMessage

SpecWire == Init /\ [][NextWire]_vars

\* the input field asks for the completions of what it holds; the call changes
\* nothing of the interface
AutoComplete ==
    \E input \in MentionInputs :
        /\ ~exited /\ isActive /\ inputMode
        /\ Install(This, "autoComplete", <<input>>, FALSE, history)
        /\ UNCHANGED <<lastSeenTimestamp, client, height, width, clock>>

\* a name joins or leaves the room: the client emits 'userJoined' or 'userLeft'
RosterChange ==
    \E name \in MentionNames :
        /\ IF name \in users THEN Deliver("userLeft", name, "userLeft")
           ELSE Deliver("userJoined", name, "userJoined")
        /\ UNCHANGED <<lastSeenTimestamp, client>>

\* completions asked for while the roster changes
NextMention == AutoComplete \/ RosterChange

SpecMention == InitMention /\ [][NextMention]_vars

\* a handler of the client runs: it leaves the client as c and emits event to
\* ChatApp's listener.  A promise rejected with nobody awaiting it is an
\* unhandled rejection: the runtime either only warns or ends the process
ClientStep(event, arg, op, c) ==
    LET u == emit(This, event, arg, clock)
    IN  \E crash \in IF c.unhandled > client.unhandled THEN BOOLEAN ELSE {FALSE} :
            /\ ~exited
            /\ u.logCalls > 0 => clock <= MaxArrivals
            /\ Install([u EXCEPT !.exited = crash], op, <<arg>>, FALSE, historyAfter(u))
            /\ clock' = IF u.logCalls > 0 THEN clock + 1 ELSE clock
            /\ client' = c
            /\ UNCHANGED <<lastSeenTimestamp, height, width>>

\* a connecting socket opens
SocketOpen ==
    \E i \in DOMAIN client.sockets :
        /\ client.sockets[i].state = "connecting"
        /\ ClientStep("connected", NoArg, "open", onOpen(client, i))

\* a socket closes, after an 'error' event or without one
SocketClose ==
    \E i \in DOMAIN client.sockets :
        /\ client.sockets[i].state # "closed"
        /\ ClientStep("disconnected", NoArg, "close", onClose(client, i))

\* a socket reports an error
SocketError ==
    \E i \in DOMAIN client.sockets :
        /\ client.sockets[i].state \in {"connecting", "open", "aborted"}
        /\ ClientStep("error", ErrorText, "socketError", onSocketError(client, i))

\* the timer of a scheduled reconnect fires
ReconnectTimer ==
    /\ client.timers > 0
    /\ ClientStep(NULL, NoArg, "reconnectTimer", onReconnectTimer(client))

\* the connection timeout of a socket fires; once the promise is settled the
\* callback has nothing left to do
ConnectTimeout ==
    \E i \in DOMAIN client.sockets :
        /\ client.sockets[i].timeout
        /\ client.sockets[i].promise = "pending"
        /\ ClientStep(NULL, NoArg, "connectTimeout", onConnectTimeout(client, i))

\* the life of the connection under a started session
NextReconnect ==
    SocketOpen \/ SocketClose \/ SocketError \/ ReconnectTimer \/ ConnectTimeout

SpecReconnect == InitReconnect /\ [][NextReconnect]_vars

\* the owner of the client calls disconnect() and keeps running
Disconnect ==
    /\ ClientStep(NULL, NoArg, "disconnect", disconnect(client))

\* the client as a unit: its socket events, its timers and its disconnect()
NextClient == NextReconnect \/ Disconnect

SpecClient == InitReconnect /\ [][NextClient]_vars

\* a connection that is lost again and again
SpecAttempts == InitAttempts /\ [][NextReconnect]_vars

\* a session with every way the process can be told to stop
NextSession == Next \/ InputCancel \/ SIGINT \/ SIGTERM

SpecSession == Init /\ [][NextSession]_vars

----------------------------------------------------------------------------
(* Claims *)

\* operations that put a record from the network in the log
ArrivalOps == {"addChatMessage", "addSystemMessage", "addErrorMessage", "addInfoMessage"}

\* C1: with the log and the terminal fixed, every sequence of scroll keys from
\* the initial state keeps 0 <= scrollPosition <= maxScroll
C1_ScrollWithinBounds ==
    /\ 0 <= scrollPosition
    /\ scrollPosition <= maxScroll(This, height)

\* a page-up that was cut short by the bound, on a log longer than the window
C1_Witness ==
    /\ last.op = "PAGE_UP"
    /\ scrollPosition = maxScroll(This, height)
    /\ scrollPosition > 0
    /\ scrollPosition - last.scrollPosition
         < Max(1, getVisibleMessageCount(This, height) - 1)

\* C2: viewMode is "normal" exactly when scrollPosition is 0 and "scrolling"
\* exactly when it is positive
C2_ModeMatchesPosition ==
    /\ viewMode = "normal" <=> scrollPosition = 0
    /\ viewMode = "scrolling" <=> scrollPosition > 0

\* C3: while scrolled up, an arrival that appends without evicting leaves the
\* displayed run of records as it was
C3_WindowPinned ==
    [][(/\ last'.op \in ArrivalOps
        /\ scrollPosition > 0
        /\ last'.removed = 0
        /\ last'.pendingIndex = -1)
       => getMessagesToDisplay(This', height') = getMessagesToDisplay(This, height)]_vars

\* C4: the END key and every sent line end at the bottom in normal mode
C4_BottomAfterEndAndSend ==
    (\/ last.op = "END"
     \/ last.op = "inputLine" /\ trim(last.arg[1]) # <<>>)
    => scrollPosition = 0 /\ viewMode = "normal"

\* a line was sent while the view was scrolled up
C4_Witness ==
    /\ last.op = "inputLine"
    /\ trim(last.arg[1]) # <<>>
    /\ last.scrollPosition > 0
    /\ scrollPosition = 0

\* C5: a chat message whose text equals a pending record's replaces that record
\* in place by a chat record with the message's name and time label, the log
\* keeping its length; otherwise exactly one chat record is appended at the end
C5_PendingReconciliation ==
    [][last'.op = "addChatMessage" =>
        LET name == last'.arg[1]
            text == last'.arg[2]
            timestamp == last'.arg[3]
            label == IF timestamp # 0 THEN timestamp \div TicksPerSecond
                     ELSE clock \div TicksPerSecond
            confirmed == [type |-> "chat", name |-> name, text |-> text,
                          timestamp |-> label]
            hits == {i \in 1..Len(messages) :
                        messages[i].type = "pending" /\ messages[i].text = text}
            appended == Append(messages, confirmed)
        IN  IF hits # {}
            THEN \E i \in hits : messages' = [messages EXCEPT ![i] = confirmed]
            ELSE /\ Len(messages) < maxMessages => messages' = appended
                 /\ Len(messages) >= maxMessages
                      => messages' = SubSeq(appended, Len(appended) - maxMessages + 1,
                                            Len(appended))]_vars

\* a pending record was replaced in place by its confirmation
C5_Witness ==
    /\ last.op = "addChatMessage"
    /\ last.pendingIndex # -1
    /\ messages[last.pendingIndex + 1].type = "chat"
    /\ messages[last.pendingIndex + 1].text = last.arg[2]
    /\ Len(messages) = Len(history)

\* C6 as claimed: a chat message from another sender than the local user never
\* replaces a pending record
C6_SenderAndTextMatch ==
    (last.op = "addChatMessage" /\ last.arg[1] # username) => last.pendingIndex = -1

\* C6 as amended: matching is by text alone. Whatever the sender, the most
\* recent pending record with the message's text becomes a chat record under the
\* sender's name, and every other pending record is left as it was
C6_TextOnlyMatch ==
    [][last'.op = "addChatMessage" =>
        LET name == last'.arg[1]
            text == last'.arg[2]
            k == last'.removed
            pend == {i \in 1..Len(messages) : messages[i].type = "pending"}
            hits == {i \in pend : messages[i].text = text}
        IN  /\ \A i \in pend \ hits : i > k => messages'[i - k] = messages[i]
            /\ hits # {} =>
                  LET m == CHOOSE i \in hits : \A j \in hits : j <= i
                  IN  /\ messages'[m].type = "chat"
                      /\ messages'[m].name = name
                      /\ messages'[m].text = text
                      /\ \A i \in hits \ {m} : messages'[i] = messages[i]]_vars

\* another user's message took the place of the local user's pending record
C6_Witness ==
    /\ last.op = "addChatMessage"
    /\ last.arg[1] # username
    /\ last.pendingIndex # -1
    /\ messages[last.pendingIndex + 1].type = "chat"
    /\ messages[last.pendingIndex + 1].name = last.arg[1]

\* C7: the log never holds more than maxMessages records, and it is always the
\* most recent records ever logged, in their order of arrival
C7_CapacityKeepsNewest ==
    /\ Len(messages) <= maxMessages
    /\ LET n == Len(history)
           kept == IF n <= maxMessages THEN n ELSE maxMessages
       IN  messages = SubSeq(history, n - kept + 1, n)

\* more than maxMessages + 1 records were logged and the last append evicted one
C7_Witness ==
    /\ Len(history) > maxMessages + 1
    /\ Len(messages) = maxMessages
    /\ last.removed = 1
    /\ messages[1] # history[1]

\* C8: evicting k records while scrolled up moves scrollPosition to
\* max(0, scrollPosition - k), in one step and summed over a run of arrivals, and
\* the mode is normal once the position has reached 0
C8_EvictionShiftsScroll ==
    LET k == evictedCount(history, messages) - anchor.evicted
    IN  /\ anchor.scroll > 0 =>
              /\ scrollPosition = Max(0, anchor.scroll - k)
              /\ scrollPosition = 0 => viewMode = "normal"
        /\ (last.op \in ArrivalOps /\ last.removed > 0 /\ last.scrollPosition > 0) =>
              /\ scrollPosition = Max(0, last.scrollPosition - last.removed)
              /\ scrollPosition = 0 => viewMode = "normal"

\* the user stopped one message up and two records were evicted since
C8_Witness ==
    /\ last.op \in ArrivalOps
    /\ anchor.scroll = 1
    /\ evictedCount(history, messages) - anchor.evicted = 2
    /\ scrollPosition = 0
    /\ viewMode = "normal"

\* C9: a resize while scrolled up clamps scrollPosition to the new maxScroll,
\* stays in scrolling mode if the result is positive and goes to normal mode if
\* it is 0; a resize in normal mode stays at the bottom
C9_ResizeClamps ==
    [][(last'.op = "resize" /\ isActive) =>
        IF viewMode = "scrolling"
        THEN /\ scrollPosition' = Min(scrollPosition, maxScroll(This', height'))
             /\ viewMode' = IF scrollPosition' > 0 THEN "scrolling" ELSE "normal"
        ELSE scrollPosition' = 0 /\ viewMode' = "normal"]_vars

\* a resize lowered the position to a positive bound and the view kept scrolling
C9_Witness ==
    /\ last.op = "resize"
    /\ 0 < scrollPosition
    /\ scrollPosition < last.scrollPosition
    /\ scrollPosition = maxScroll(This, height)
    /\ viewMode = "scrolling"

----------------------------------------------------------------------------
(* Shutdown *)

InterruptOps == QuitKeys \cup {"inputCancel", "SIGINT", "SIGTERM"}

\* C11: whatever told a started session to stop (quit key, cancelled input
\* field, process SIGINT), by the time the process has exited cleanup() has run
\* exactly once, and at no time has it run more than once.
C11_CleanupExactlyOnce ==
    /\ session.cleanups <= 1
    /\ (exited /\ session.started /\ last.op \in InterruptOps \ {"SIGTERM"}) =>
          session.cleanups = 1

\* C12: a started session that exits on an interrupt (quit key, cancelled input
\* field, SIGINT, SIGTERM) has run cleanup() first: the terminal no longer
\* captures input and the interface is inactive.
C12_CleanupBeforeExit ==
    (exited /\ session.started /\ last.op \in InterruptOps) =>
        /\ session.cleanups >= 1
        /\ ~grabInput
        /\ ~isActive

----------------------------------------------------------------------------
(* Arrivals and the scroll state *)

\* C14: a record arriving from the network (chat, system, error, info) while
\* the log holds fewer than maxMessages records leaves scrollPosition and
\* viewMode as they were.
C14_ArrivalKeepsScroll ==
    [][(last'.op \in ArrivalOps /\ Len(messages) < maxMessages) =>
           UNCHANGED <<scrollPosition, viewMode>>]_vars

\* a record arrived below capacity while the user was scrolled up
C14_Witness ==
    /\ last.op \in ArrivalOps
    /\ last.removed = 0
    /\ Len(messages) <= maxMessages
    /\ last.logCalls = 1
    /\ last.scrollPosition > 0
    /\ scrollPosition = last.scrollPosition
    /\ viewMode = "scrolling"

----------------------------------------------------------------------------
(* The fate of records in the log *)

\* in this step the record at index i keeps its place, shifted by the records
\* removed from the front
Stays(i) ==
    /\ i > last'.removed
    /\ messages'[i - last'.removed] = messages[i]

\* in this step the pending record at index i gives its place to a chat record
\* with the same text
Confirmed(i) ==
    /\ i > last'.removed
    /\ messages'[i - last'.removed].type = "chat"
    /\ messages'[i - last'.removed].text = messages[i].text

\* in this step the record at index i is among those the capacity bound drops
\* from the front
Evicted(i) ==
    /\ i <= last'.removed
    /\ Len(messages') = maxMessages

\* C15 as stated: a pending record in the log is, after any step, still there as
\* the same pending record or replaced in place by a chat record with the same
\* text; it leaves the log in no other way.
C15_PendingStaysOrConfirmed ==
    [][\A i \in 1..Len(messages) :
           messages[i].type = "pending" => (Stays(i) \/ Confirmed(i))]_vars

\* C15 amended: a pending record in the log is, after any step, still there as
\* the same pending record, or replaced in place by a chat record with the same
\* text, or dropped from the front by the capacity bound.
C15_PendingStaysConfirmedOrEvicted ==
    [][\A i \in 1..Len(messages) :
           messages[i].type = "pending" =>
               (Stays(i) \/ Confirmed(i) \/ Evicted(i))]_vars

\* a pending record was dropped by the capacity bound, unconfirmed
C15_Witness ==
    /\ last.removed > 0
    /\ \E h \in 1..evictedCount(history, messages) : history[h].type = "pending"

\* C16: the log is never reordered: after any step the records that survive keep
\* their relative order, new records come at the end only, and the only record
\* that changes in place is a pending one replaced by a chat record.
C16_OrderKept ==
    [][/\ last'.removed <= Len(messages)
       /\ Len(messages') - (Len(messages) - last'.removed) \in {0, 1}
       /\ \A i \in (last'.removed + 1)..Len(messages) :
              \/ Stays(i)
              \/ /\ messages[i].type = "pending"
                 /\ last'.op = "addChatMessage"
                 /\ Confirmed(i)]_vars

\* a pending record was replaced in place with other records after it
C16_Witness ==
    /\ last.op = "addChatMessage"
    /\ last.pendingIndex # -1
    /\ last.pendingIndex + 1 < Len(messages)
    /\ messages[last.pendingIndex + 1].type = "chat"
    /\ messages[last.pendingIndex + 2].type = "system"

----------------------------------------------------------------------------
(* The connection's events *)

WsEvents ==
    {"connected", "disconnected", "error", "message", "userJoined", "userLeft",
     "ready"}

\* the last step handled a payload that the client did not route as an error, a
\* join or a leave
PayloadStep(l) == l.op \in {"message", "dropped"}

\* C17: a payload that reaches the client as a message and lacks a sender name
\* or a text is dropped: the log, the roster, the scroll state and the status
\* are unchanged, and no record (so no error record) is logged.
C17_MalformedDropped ==
    [][(/\ PayloadStep(last')
        /\ last'.arg[1].name = NULL \/ last'.arg[1].message = <<>>) =>
           /\ UNCHANGED <<messages, users, scrollPosition, viewMode, status>>
           /\ last'.logCalls = 0
           /\ last'.rosterCalls = 0]_vars

\* a payload with a text, a fresh timestamp and no name reached the listener
\* while the log, the roster and the scroll position were all non-empty
C17_Witness ==
    /\ last.op = "message"
    /\ last.arg[1].name = NULL
    /\ last.arg[1].message # <<>>
    /\ lastSeenTimestamp = last.arg[1].timestamp
    /\ last.logCalls = 0
    /\ users # {}
    /\ scrollPosition > 0

\* C18 as stated: every event of the connection makes exactly one change to the
\* log or the roster.
C18_OneMutationPerEvent ==
    last.op \in WsEvents => last.logCalls + last.rosterCalls = 1

\* C18 amended: connected, disconnected and error each log one record; a message
\* logs one record when it carries a name and a text and none otherwise; a join
\* or a leave changes the roster once and logs one record.
C18_MutationsPerEvent ==
    /\ last.op \in {"connected", "disconnected", "error"} =>
          (last.logCalls = 1 /\ last.rosterCalls = 0)
    /\ last.op = "message" =>
          /\ last.rosterCalls = 0
          /\ last.logCalls =
                 IF last.arg[1].name # NULL /\ last.arg[1].message # <<>>
                 THEN 1 ELSE 0
    /\ last.op \in {"userJoined", "userLeft"} =>
          (last.logCalls = 1 /\ last.rosterCalls = 1)

\* a join put the peer on the roster and a notice in the log
C18_Witness ==
    /\ last.op = "userJoined"
    /\ last.rosterCalls = 1
    /\ last.logCalls = 1
    /\ Peer \in users
    /\ messages[Len(messages)].type = "system"

\* C19: when the server's room-ready payload has been handled, the welcome
\* system messages are in the log.
C19_ReadyAppendsWelcome ==
    (PayloadStep(last) /\ last.arg[1].ready) =>
        /\ last.logCalls >= 1
        /\ messages # <<>>
        /\ messages[Len(messages)].type = "system"

----------------------------------------------------------------------------
(* Submitting a line *)

Blanks(s) == \A i \in 1..Len(s) : s[i] = " "

\* t is line without its leading and trailing spaces
IsTrimOf(t, line) ==
    /\ \E a, b \in 0..Len(line) :
          /\ a + b <= Len(line)
          /\ t = SubSeq(line, a + 1, Len(line) - b)
          /\ Blanks(SubSeq(line, 1, a))
          /\ Blanks(SubSeq(line, Len(line) - b + 1, Len(line)))
    /\ t # <<>> => (t[1] # " " /\ t[Len(t)] # " ")

\* C20: a submitted line whose text without surrounding spaces is non-empty
\* emits exactly one 'message' event carrying that text and appends exactly one
\* pending record with that text; an empty or all-space line emits nothing and
\* leaves the log and the scroll state unchanged.
C20_SubmitEmitsAndEchoes ==
    [][last'.op = "inputLine" =>
          LET line == last'.arg[1]
          IN  IF Blanks(line)
              THEN /\ last'.emitted = <<>>
                   /\ UNCHANGED <<messages, scrollPosition, viewMode>>
              ELSE \E t \in Texts :
                      /\ IsTrimOf(t, line)
                      /\ last'.emitted = <<[event |-> "message", arg |-> t]>>
                      /\ last'.logCalls = 1
                      /\ Len(history') = Len(history) + 1
                      /\ messages'[Len(messages')].type = "pending"
                      /\ messages'[Len(messages')].text = t
                      /\ SubSeq(messages', 1, Len(messages') - 1) =
                             SubSeq(messages, 1 + last'.removed, Len(messages))]_vars

\* a line with spaces around its text was submitted: the event and the pending
\* record carry the text without them
C20_Witness ==
    /\ last.op = "inputLine"
    /\ last.arg[1] = <<" ", "y", "o", " ">>
    /\ last.emitted = <<[event |-> "message", arg |-> <<"y", "o">>]>>
    /\ messages[Len(messages)].type = "pending"
    /\ messages[Len(messages)].text = <<"y", "o">>

----------------------------------------------------------------------------
(* What a render shows *)

\* every line of the log at the width of the message pane, oldest first
allLines == linesOf(messages, (width * 3) \div 4 - 2)

\* C13: in normal mode with a non-empty log, at every terminal height, the rows
\* a render writes are the final lines of the log: at least the last line of the
\* newest message, and the lines before it, in order, as far as rows are written.
C13_NewestLineShown ==
    (isActive /\ viewMode = "normal" /\ messages # <<>>) =>
        LET rows == render(This, height, width)
        IN  /\ rows # <<>>
            /\ rows = SubSeq(allLines, Len(allLines) - Len(rows) + 1, Len(allLines))

----------------------------------------------------------------------------
(* Wrapping one record *)

\* the width renderMessages wraps at on the current terminal
lineWidth == (width * 3) \div 4 - 2

\* the record on show and its lines at the current width
shown == messages[Len(messages)]
shownLines == formatMessageToLines(shown, lineWidth)

\* the unstyled text a record is meant to show, by its type
plainContent(msg) ==
    CASE msg.type = "chat" -> chars(msg.name) \o <<":", " ">> \o msg.text
      [] msg.type = "pending" ->
            chars(msg.name) \o <<":", " ">> \o msg.text \o <<" ">> \o SendingText
      [] OTHER -> msg.text

plainPrefix(msg) == <<"[">> \o labelText(msg.timestamp) \o <<"]", " ">>

\* C21: a record whose unstyled line, '[timestamp] ' and content, is no longer
\* than maxWidth is returned as exactly one line, the full styled rendering.
C21_FittingRecordOneLine ==
    (messages # <<>> /\ Len(plainPrefix(shown) \o plainContent(shown)) <= lineWidth) =>
        /\ Len(shownLines) = 1
        /\ shownLines[1] = gray(timestampOf(shown)) \o <<" ">> \o contentOf(shown)
        /\ stripAnsiCodes(shownLines[1]) = plainPrefix(shown) \o plainContent(shown)

\* a pending record fits the pane exactly and comes out as one styled line
C21_Witness ==
    /\ messages # <<>>
    /\ shown.type = "pending"
    /\ Len(plainPrefix(shown) \o plainContent(shown)) = lineWidth
    /\ last.op = "resize"
    /\ Len(shownLines) = 1
    /\ shownLines[1] # stripAnsiCodes(shownLines[1])

\* the words of an unstyled text: its maximal runs of non-space characters
wordsOf(str) == SelectSeq(split(str), LAMBDA word : word # <<>>)

\* the content words line i of a wrapped record carries: its words, without the
\* bracketed timestamp when the line starts with it
lineWords(lines, i, msg) ==
    LET words == wordsOf(stripAnsiCodes(lines[i]))
    IN  IF words # <<>> /\ Head(words) = timestampOf(msg) THEN Tail(words) ELSE words

RECURSIVE wordsFrom(_, _, _)
wordsFrom(lines, i, msg) ==
    IF i > Len(lines) THEN <<>>
    ELSE lineWords(lines, i, msg) \o wordsFrom(lines, i + 1, msg)

\* C22: when a record is wrapped into more than one line, every line is no
\* longer than maxWidth unless it carries a single word, and the words of the
\* lines, in order, are the words of the content.
C22_WrappedLinesFit ==
    (messages # <<>> /\ Len(shownLines) > 1) =>
        /\ \A i \in 1..Len(shownLines) :
              \/ Len(stripAnsiCodes(shownLines[i])) <= lineWidth
              \/ Len(lineWords(shownLines, i, shown)) <= 1
        /\ wordsFrom(shownLines, 1, shown) = wordsOf(plainContent(shown))

\* C23: at every width the first line of a record starts with the bracketed
\* timestamp, and the lines after the timestamp carry the content of its type:
\* 'name: text' for chat, 'text' for system, error and info, and
\* 'name: text (sending...)' for pending.
C23_TimestampThenContent ==
    messages # <<>> =>
        /\ LET first == stripAnsiCodes(shownLines[1])
           IN  /\ Len(first) >= Len(timestampOf(shown))
               /\ SubSeq(first, 1, Len(timestampOf(shown))) = timestampOf(shown)
        /\ wordsFrom(shownLines, 1, shown) = wordsOf(plainContent(shown))

----------------------------------------------------------------------------
(* Mention suggestions *)

\* the suggestions returned by the last completion request
suggestions == handleAutoComplete(This, last.arg[1])

----------------------------------------------------------------------------
(* Repainting *)

----------------------------------------------------------------------------
(* C26 *)

\* a socket of the client is still connecting
attemptInProgress ==
    \E i \in DOMAIN client.sockets : client.sockets[i].state = "connecting"

\* the process was ended by the user, not by the runtime
userQuit == exited /\ client.unhandled = 0

\* C26: while the connection is lost, fewer than maxReconnectAttempts attempts
\* were counted and the user did not quit, the process is alive and a new
\* connection attempt is under way or its timer is armed, so that the attempt
\* is eventually started
C26_LossLeadsToAttempt ==
    (~client.connected /\ client.reconnectAttempts < maxReconnectAttempts /\ ~userQuit)
        => ~exited /\ (client.timers > 0 \/ attemptInProgress)

----------------------------------------------------------------------------
(* C27 *)

\* the positions of the pending records with the text of the confirmation that
\* the step delivers
duplicates ==
    {i \in 1..Len(messages) :
        messages[i].type = "pending" /\ messages[i].text = last'.arg[2]}

newestDuplicate == CHOOSE i \in duplicates : \A j \in duplicates : j <= i

\* C27: when several pending records hold the text of a confirmation, the
\* confirmation replaces the one added last, in place, and every older one stays
\* in the log as it was, still pending
C27_NewestDuplicateConfirmed ==
    [][(last'.op = "addChatMessage" /\ Cardinality(duplicates) >= 2) =>
          /\ last'.pendingIndex = newestDuplicate - 1
          /\ Len(messages') = Len(messages)
          /\ messages'[newestDuplicate] =
                 chatRecord(last'.arg[1], last'.arg[2], last'.arg[3], clock)
          /\ \A i \in 1..Len(messages) :
                 i # newestDuplicate => messages'[i] = messages[i]]_vars

\* a confirmation took the place of a pending record while an older pending
\* record with the same text is still in the log
C27_Witness ==
    /\ last.op = "addChatMessage"
    /\ last.pendingIndex # -1
    /\ \E i \in 1..last.pendingIndex :
           messages[i].type = "pending" /\ messages[i].text = last.arg[2]
    /\ messages[last.pendingIndex + 1].type = "chat"

----------------------------------------------------------------------------
(* C28 *)

\* the positions in the log of the records getMessagesToDisplay returns: the
\* run ends scrollPosition records before the newest, or at the newest
shownPositions(this, h) ==
    LET run == getMessagesToDisplay(this, h)
        end == IF this.viewMode = "normal" \/ this.scrollPosition = 0
               THEN Len(this.messages)
               ELSE Len(this.messages) - this.scrollPosition
    IN  (end - Len(run) + 1)..end

\* C28: when an arrival evicts k records while the view is scrolled up, the
\* records displayed afterwards are the records displayed before, less the
\* evicted ones; a record at position i after the eviction was at i + k before
C28_EvictionKeepsWindow ==
    [][(/\ last'.op \in ArrivalOps
        /\ last'.removed > 0
        /\ viewMode = "scrolling"
        /\ scrollPosition > 0)
       => {i + last'.removed : i \in shownPositions(This', height')}
              = shownPositions(This, height) \ (1..last'.removed)]_vars

----------------------------------------------------------------------------
(* C29 *)

\* C29: UP adds exactly 1 to scrollPosition and leaves the mode "scrolling" when
\* scrollPosition is below maxScroll, and changes nothing at maxScroll; DOWN
\* takes exactly 1 off when scrollPosition is positive, with mode "normal" once
\* it is 0, and changes nothing at 0
C29_SingleSteps ==
    [][/\ last'.op = "UP" =>
            IF scrollPosition < maxScroll(This, height)
            THEN scrollPosition' = scrollPosition + 1 /\ viewMode' = "scrolling"
            ELSE UNCHANGED <<scrollPosition, viewMode>>
       /\ last'.op = "DOWN" =>
            IF scrollPosition > 0
            THEN /\ scrollPosition' = scrollPosition - 1
                 /\ viewMode' = IF scrollPosition' = 0 THEN "normal" ELSE viewMode
            ELSE UNCHANGED <<scrollPosition, viewMode>>
       /\ last'.op \in {"UP", "DOWN"} => UNCHANGED <<messages, updateStatus>>]_vars

\* UP was pressed at the top of a log longer than the window and moved nothing
C29_Witness ==
    /\ last.op = "UP"
    /\ last.scrollPosition = scrollPosition
    /\ scrollPosition = maxScroll(This, height)
    /\ scrollPosition > 1
    /\ viewMode = "scrolling"

----------------------------------------------------------------------------
(* C30 *)

pageSize == Max(1, getVisibleMessageCount(This, height) - 1)

\* C30: PAGE_UP and PAGE_DOWN move scrollPosition by max(1, visibleCapacity - 1)
\* within 0..maxScroll, and afterwards the mode is "scrolling" if the position
\* is positive and "normal" if it is 0
C30_PageSteps ==
    [][/\ last'.op = "PAGE_UP" =>
            scrollPosition' = Min(maxScroll(This, height), scrollPosition + pageSize)
       /\ last'.op = "PAGE_DOWN" =>
            scrollPosition' = Max(0, scrollPosition - pageSize)
       /\ last'.op \in {"PAGE_UP", "PAGE_DOWN"} =>
            viewMode' = IF scrollPosition' > 0 THEN "scrolling" ELSE "normal"]_vars

----------------------------------------------------------------------------
(* C31 *)

\* C31: HOME sets scrollPosition to maxScroll; the mode is "scrolling"
\* afterwards, except that with maxScroll 0 it stays "normal"
C31_HomeGoesToTop ==
    [][last'.op = "HOME" =>
          /\ scrollPosition' = maxScroll(This, height)
          /\ IF maxScroll(This, height) = 0
             THEN viewMode = "normal" => viewMode' = "normal"
             ELSE viewMode' = "scrolling"]_vars

----------------------------------------------------------------------------
(* C32 *)

\* the rows left for messages: the height less the header (3, or 4 with the
\* update notice), the input area (3) and the pane's header and border (2)
rows == height - (IF updateStatus # NULL THEN 4 ELSE 3) - 3 - 2

\* the factor, in tenths of a line per message
tenths == IF rows < 10 THEN 12 ELSE 15

\* n is floor(rows / f)
IsFloorOfQuotient(n) == n * tenths <= rows * 10 /\ rows * 10 < (n + 1) * tenths

\* C32: visibleCapacity is floor(rows / f) and at least 1, with f = 1.2 below 10
\* rows and 1.5 from 10 rows on; it is 1 when no row is left for messages
C32_VisibleCapacity ==
    LET n == getVisibleMessageCount(This, height)
    IN  /\ n >= 1
        /\ n > 1 => IsFloorOfQuotient(n)
        /\ n = 1 => \E m \in -3..1 : IsFloorOfQuotient(m)

\* a page step was taken on a terminal that leaves no row for messages
C32_Witness ==
    /\ last.op = "PAGE_UP"
    /\ rows < 1
    /\ getVisibleMessageCount(This, height) = 1
    /\ scrollPosition = 1

----------------------------------------------------------------------------
(* C33 *)

\* the number of spaces an unstyled line starts with
RECURSIVE leadingSpaces(_)
leadingSpaces(str) ==
    IF str # <<>> /\ Head(str) = " " THEN 1 + leadingSpaces(Tail(str)) ELSE 0

\* the lines of the record on show that do not start with its timestamp
continuationLines ==
    {i \in 1..Len(shownLines) : Head(stripAnsiCodes(shownLines[i])) # "["}

----------------------------------------------------------------------------
(* C34 *)

\* widths below 1 that a caller can pass
NonPositiveWidths == -3..0

\* C34: for a width of 0 or less the record on show is formatted as it is for
\* width 1, and into at least one line
C34_NonPositiveWidthAsOne ==
    messages # <<>> =>
        /\ \A w \in NonPositiveWidths :
              /\ formatMessageToLines(shown, w) = formatMessageToLines(shown, 1)
              /\ formatMessageToLines(shown, w) # <<>>
        /\ lineWidth <= 0 =>
              shownLines = formatMessageToLines(shown, 1) /\ shownLines # <<>>

\* the terminal was narrowed until the pane has no column left for a line, and
\* the record is shown one word to a line
C34_Witness ==
    /\ messages # <<>>
    /\ last.op = "resize"
    /\ lineWidth <= 0
    /\ Len(shownLines) >= 2
    /\ shownLines = formatMessageToLines(shown, 1)

----------------------------------------------------------------------------
(* C35 *)

\* C35: once disconnect() was called no step starts a connection attempt: no
\* socket is created, whether by a reconnect timer armed before the call or
\* after a later 'close' or 'error' event
C35_NoAttemptAfterDisconnect ==
    [][client.disconnected => Len(client'.sockets) = Len(client.sockets)]_vars

----------------------------------------------------------------------------
(* C36 *)

\* the sockets of the client in one of the given states
socketsIn(states) ==
    {i \in DOMAIN client.sockets : client.sockets[i].state \in states}

\* C36: at any time at most one reconnect timer or connection attempt is
\* outstanding, and at most one socket is connecting or open
C36_OneReconnectOutstanding ==
    /\ client.timers + Cardinality(socketsIn({"connecting"})) <= 1
    /\ Cardinality(socketsIn({"connecting", "open"})) <= 1

----------------------------------------------------------------------------
(* C37 *)

\* the payload of the step is a chat payload with a timestamp
TimestampedChat(l) ==
    /\ PayloadStep(l)
    /\ ~l.arg[1].ready
    /\ l.arg[1].timestamp # 0

\* C37: lastSeenTimestamp never decreases; a timestamped chat payload is
\* forwarded only if its timestamp is above it, and then becomes it, so the
\* timestamps of forwarded payloads increase strictly; a replayed payload, at or
\* below the mark, is not forwarded and leaves the log as it is
C37_ForwardedTimestampsIncrease ==
    [][/\ lastSeenTimestamp' >= lastSeenTimestamp
       /\ (TimestampedChat(last') /\ last'.op = "message") =>
             /\ last'.arg[1].timestamp > lastSeenTimestamp
             /\ lastSeenTimestamp' = last'.arg[1].timestamp
       /\ (TimestampedChat(last') /\ last'.arg[1].timestamp <= lastSeenTimestamp) =>
             /\ last'.op = "dropped"
             /\ last'.logCalls = 0
             /\ UNCHANGED <<messages, lastSeenTimestamp>>]_vars

\* a complete chat payload came again after the connection was opened anew and
\* was not forwarded: the log holds the one record of its first delivery
C37_Witness ==
    /\ last.op = "dropped"
    /\ last.arg[1].name # NULL
    /\ last.arg[1].message # <<>>
    /\ last.arg[1].timestamp = lastSeenTimestamp
    /\ lastSeenTimestamp # 0
    /\ Cardinality({i \in 1..Len(messages) : messages[i].type = "chat"}) = 1
    /\ status = "Connected"

----------------------------------------------------------------------------
(* C38 *)

\* C38: reconnectAttempts stays within 0..maxReconnectAttempts; a step arms a
\* reconnect timer only with the counter below the maximum, and counts it; the
\* counter goes back to 0 only in a step that opens a socket; with the counter
\* at the maximum no step arms a timer
C38_AttemptsBounded ==
    [][LET before == client.reconnectAttempts
           after == client'.reconnectAttempts
       IN  /\ before \in 0..maxReconnectAttempts
           /\ after \in 0..maxReconnectAttempts
           /\ client'.timers > client.timers =>
                 /\ before < maxReconnectAttempts
                 /\ after = before + 1
                 /\ client'.timers = client.timers + 1
           /\ after # before => (after = before + 1 \/ (after = 0 /\ last'.op = "open"))
           /\ before = maxReconnectAttempts => client'.timers <= client.timers]_vars

\* a socket closed with five attempts counted: nothing was scheduled, no timer
\* is armed and the process is still running
C38_Witness ==
    /\ last.op = "close"
    /\ client.reconnectAttempts = maxReconnectAttempts
    /\ client.timers = 0
    /\ ~client.connected
    /\ ~exited

----------------------------------------------------------------------------
(* C39 *)

----------------------------------------------------------------------------
(* C40 *)

\* C40: with a non-empty log, getMessagesToDisplay returns a non-empty run of
\* consecutive log records, in log order, no longer than visibleCapacity, that
\* ends with the newest record in normal mode and scrollPosition records before
\* the newest in scrolling mode
C40_WindowIsRunOfLog ==
    messages # <<>> =>
        LET shownRun == getMessagesToDisplay(This, height)
            final == IF viewMode = "normal" THEN Len(messages)
                   ELSE Len(messages) - scrollPosition
            first == final - Len(shownRun) + 1
        IN  /\ shownRun # <<>>
            /\ Len(shownRun) <= getVisibleMessageCount(This, height)
            /\ first >= 1
            /\ final <= Len(messages)
            /\ shownRun = SubSeq(messages, first, final)

\* scrolled up over a full log when a record arrived: the window is a full run
\* that ends before the newest record
C40_Witness ==
    /\ last.op \in ArrivalOps
    /\ viewMode = "scrolling"
    /\ scrollPosition > 0
    /\ Len(messages) = maxMessages
    /\ Len(getMessagesToDisplay(This, height)) = getVisibleMessageCount(This, height)
    /\ getMessagesToDisplay(This, height)[1] # messages[Len(messages)]

====
